---- MODULE Spec2Model ----
(***************************************************************************)
(* Model of the stock allocation ranker of Dalal-Street:                   *)
(*   src/scripts/portfolioAlloter.py   class StockRanker, the standalone   *)
(*                                     library copy ("lib")                *)
(*   src/scripts/streamlit_app_pa.py   class StockRanker and the form      *)
(*                                     script around it ("app")            *)
(*                                                                         *)
(* Numbers.  A Python float is modelled as a decimal fixed-point number:   *)
(* the integer n stands for n / FScale.  Addition and subtraction are      *)
(* exact; multiplication and division round to the nearest representable   *)
(* value, ties to even, as the float operations do (at 1e-6 instead of     *)
(* 2^-53 relative precision).  Every intermediate value stays below 2^31.  *)
(***************************************************************************)
EXTENDS Integers, Sequences, FiniteSets, TLC

VARIABLES
    copy,     \* which copy of StockRanker the caller uses: "lib" or "app"
    weights,  \* self.weights of the constructed ranker, or NoRanker
    ctor,     \* how the last StockRanker(...) call ended
    rec,      \* the caller's record (the dict handed to calculate_metric)
    ret,      \* how the last calculate_metric call ended
    memo,     \* one remembered earlier call with its outcome, or NoMemo
    probe,    \* the last direct call of a scoring function, with its outcome
    ui        \* the form script: sidebar weights, widgets, and what the page shows

vars == <<copy, weights, ctor, rec, ret, memo, probe, ui>>

----------------------------------------------------------------------------
(* Fixed-point arithmetic *)

FScale == 10^6

Dec(n, d) == (n * FScale) \div d

\* n millionths
Micro(n) == n * (FScale \div 10^6)

Abs(x) == IF x < 0 THEN -x ELSE x

Sgn(x) == IF x < 0 THEN -1 ELSE 1

Max(a, b) == IF a >= b THEN a ELSE b

\* F(v) with v evaluated once, whatever F does with it.
Bind(v, F(_)) == CHOOSE r \in {F(x) : x \in {v}} : TRUE

\* One digit of the long multiplication below: h is <<q, r>> for the higher
\* digits of b.
MulDivStep(h, a, digit, c, base) ==
    <<base * h[1] + digit * (a \div c) + (base * h[2] + digit * (a % c)) \div c,
      (base * h[2] + digit * (a % c)) % c>>

\* <<q, r>> with a * b = q * c + r and 0 <= r < c, for a, b >= 0 and c > 0,
\* computed without forming a * b: long multiplication over the digits of b
\* in a base small enough that no intermediate value reaches 2^31.
RECURSIVE MulDivQR(_, _, _)
MulDivQR(a, b, c) ==
    IF b = 0 THEN <<0, 0>>
    ELSE LET base == IF c <= 10^6 THEN 1024 ELSE 8
             Step(h) == MulDivStep(h, a, b % base, c, base)
         IN  Bind(MulDivQR(a, b \div base, c), Step)

RoundHalfEven(qr, c) ==
    IF 2 * qr[2] > c \/ (2 * qr[2] = c /\ qr[1] % 2 = 1) THEN qr[1] + 1 ELSE qr[1]

\* a * b / c rounded to the nearest unit, ties to even (c # 0)
RoundedMulDiv(a, b, c) ==
    LET Rounded(qr) == RoundHalfEven(qr, Abs(c))
    IN  Sgn(a) * Sgn(b) * Sgn(c) * Bind(MulDivQR(Abs(a), Abs(b), Abs(c)), Rounded)

\* float * float
FMul(a, b) ==
    LET Product(v) == RoundedMulDiv(v[1], v[2], FScale)
    IN  Bind(<<a, b>>, Product)

\* float / float (b # 0)
FDiv(a, b) ==
    LET Quotient(v) == RoundedMulDiv(v[1], FScale, v[2])
    IN  Bind(<<a, b>>, Quotient)

\* a * b / c, the product formed exactly and the quotient rounded once (c # 0)
FMulDiv(a, b, c) ==
    LET Result(v) == RoundedMulDiv(v[1], v[2], v[3])
    IN  Bind(<<a, b, c>>, Result)

\* round(x, 2)
Round2(x) ==
    LET c == FScale \div 100
        Rounded(v) == Sgn(v) * c * RoundHalfEven(<<Abs(v) \div c, Abs(v) % c>>, c)
    IN  Bind(x, Rounded)

\* math.isclose(a, b, rel_tol = 1 / relTolInv), abs_tol = 0.0:
\*   abs(a - b) <= rel_tol * max(abs(a), abs(b)).
\* a - b is a whole number of units, so the bound may be floored.
IsClose(a, b, relTolInv) == Abs(a - b) <= Max(Abs(a), Abs(b)) \div relTolInv

----------------------------------------------------------------------------
(* Outcomes of a call: a returned value or a raised exception *)

Return(v) == [val |-> v]

Raise(e) == [exc |-> e]

Raised(o) == "exc" \in DOMAIN o

Returned(o) == "val" \in DOMAIN o

----------------------------------------------------------------------------
(* Scoring functions of the library copy, portfolioAlloter.py *)

Lib_score_pe_ratio(stock_pe, industry_pe) ==
    IF stock_pe <= 0 \/ industry_pe <= 0 THEN 0
    ELSE LET ratio == FDiv(stock_pe, industry_pe)
         IN  IF ratio <= Dec(7, 10) THEN Dec(100, 1)
             ELSE IF ratio >= Dec(2, 1) THEN 0
             ELSE FMulDiv(Dec(100, 1), Dec(2, 1) - ratio, Dec(2, 1) - Dec(7, 10))

Lib_score_peg_ratio(peg_ratio) ==
    IF peg_ratio <= 0 THEN 0
    ELSE IF peg_ratio <= Dec(8, 10) THEN Dec(100, 1)
    ELSE IF peg_ratio >= Dec(2, 1) THEN 0
    ELSE FMulDiv(Dec(100, 1), Dec(2, 1) - peg_ratio, Dec(2, 1) - Dec(8, 10))

\* Variant of the RSI scorer with the interpolation measured from the wrong end.
Lib_score_rsi_rising(rsi) ==
    IF rsi <= Dec(30, 1) THEN Dec(100, 1)
    ELSE IF rsi >= Dec(70, 1) THEN 0
    ELSE FMulDiv(Dec(100, 1), rsi - Dec(30, 1), Dec(70, 1) - Dec(30, 1))

Lib_score_rsi(rsi) ==
    IF rsi <= Dec(30, 1) THEN Dec(100, 1)
    ELSE IF rsi >= Dec(70, 1) THEN 0
    ELSE FMulDiv(Dec(100, 1), Dec(70, 1) - rsi, Dec(70, 1) - Dec(30, 1))

Lib_score_debt_to_equity(de_ratio) ==
    IF de_ratio <= Dec(1, 10) THEN Dec(100, 1)
    ELSE IF de_ratio >= Dec(2, 1) THEN 0
    ELSE FMulDiv(Dec(100, 1), Dec(2, 1) - de_ratio, Dec(2, 1) - Dec(1, 10))

Lib_score_profit_growth(profit_growth_3y_cagr) ==
    IF profit_growth_3y_cagr >= Dec(25, 1) THEN Dec(100, 1)
    ELSE IF profit_growth_3y_cagr <= 0 THEN 0
    ELSE FMulDiv(Dec(100, 1), profit_growth_3y_cagr, Dec(25, 1))

\* Variant of the rating scorer without the range check.
Lib_score_human_rating_unchecked(rating) ==
    Return(FMul(rating - Dec(1, 1), Dec(25, 1)))

\* An outcome: raises ValueError outside 1..5.
Lib_score_human_rating_1_to_5(rating) ==
    IF ~(Dec(1, 1) <= rating /\ rating <= Dec(5, 1))
    THEN Raise("ValueError")
    ELSE Return(FMul(rating - Dec(1, 1), Dec(25, 1)))

Lib_total_strong_hands(promoter, fii, dii) == promoter + fii + dii

\* Variant of the holdings scorer that leaves the DII holding out of the total.
Lib_score_holdings_without_dii(promoter, fii, dii) ==
    LET total_strong_hands == promoter + fii
    IN  IF total_strong_hands >= Dec(80, 1) THEN Dec(100, 1)
        ELSE IF total_strong_hands <= Dec(40, 1) THEN 0
        ELSE FMulDiv(Dec(100, 1), total_strong_hands - Dec(40, 1), Dec(80, 1) - Dec(40, 1))

Lib_score_holdings(promoter, fii, dii) ==
    LET total_strong_hands == Lib_total_strong_hands(promoter, fii, dii)
    IN  IF total_strong_hands >= Dec(80, 1) THEN Dec(100, 1)
        ELSE IF total_strong_hands <= Dec(40, 1) THEN 0
        ELSE FMulDiv(Dec(100, 1), total_strong_hands - Dec(40, 1), Dec(80, 1) - Dec(40, 1))

Lib_weighted_delta(promoter_delta, fii_delta, dii_delta) ==
    FMul(promoter_delta, Dec(2, 1)) + FMul(fii_delta, Dec(15, 10))
        + FMul(dii_delta, Dec(1, 1))

Lib_score_holding_delta(promoter_delta, fii_delta, dii_delta) ==
    LET weighted_delta == Lib_weighted_delta(promoter_delta, fii_delta, dii_delta)
    IN  IF weighted_delta >= Dec(3, 1) THEN Dec(100, 1)
        ELSE IF weighted_delta <= -Dec(3, 1) THEN 0
        ELSE FMulDiv(Dec(100, 1), weighted_delta + Dec(3, 1), Dec(6, 1))

Lib_signal_map ==
    [s \in {"near support", "nothing", "near resistance"} |->
        CASE s = "near support" -> Dec(100, 1)
          [] s = "nothing" -> Dec(50, 1)
          [] s = "near resistance" -> 0]

\* An outcome: raises ValueError for a signal that is no key of the map.
Lib_score_technicals(signal) ==
    IF signal \notin DOMAIN Lib_signal_map
    THEN Raise("ValueError")
    ELSE Return(Lib_signal_map[signal])

----------------------------------------------------------------------------
(* Scoring functions of the form's copy, streamlit_app_pa.py *)

App_score_pe_ratio(stock_pe, industry_pe) ==
    IF stock_pe <= 0 \/ industry_pe <= 0 THEN 0
    ELSE LET ratio == FDiv(stock_pe, industry_pe)
         IN  IF ratio <= Dec(7, 10) THEN Dec(100, 1)
             ELSE IF ratio >= Dec(2, 1) THEN 0
             ELSE FMulDiv(Dec(100, 1), Dec(2, 1) - ratio, Dec(2, 1) - Dec(7, 10))

App_score_peg_ratio(peg_ratio) ==
    IF peg_ratio <= 0 THEN 0
    ELSE IF peg_ratio <= Dec(8, 10) THEN Dec(100, 1)
    ELSE IF peg_ratio >= Dec(2, 1) THEN 0
    ELSE FMulDiv(Dec(100, 1), Dec(2, 1) - peg_ratio, Dec(2, 1) - Dec(8, 10))

App_score_rsi(rsi) ==
    IF rsi <= Dec(30, 1) THEN Dec(100, 1)
    ELSE IF rsi >= Dec(70, 1) THEN 0
    ELSE FMulDiv(Dec(100, 1), Dec(70, 1) - rsi, Dec(70, 1) - Dec(30, 1))

App_score_debt_to_equity(de_ratio) ==
    IF de_ratio <= Dec(1, 10) THEN Dec(100, 1)
    ELSE IF de_ratio >= Dec(2, 1) THEN 0
    ELSE FMulDiv(Dec(100, 1), Dec(2, 1) - de_ratio, Dec(2, 1) - Dec(1, 10))

App_score_profit_growth(profit_growth) ==
    IF profit_growth >= Dec(25, 1) THEN Dec(100, 1)
    ELSE IF profit_growth <= 0 THEN 0
    ELSE FMulDiv(Dec(100, 1), profit_growth, Dec(25, 1))

\* No range check: any rating is accepted.
App_score_human_rating(rating) == FMul(rating - Dec(1, 1), Dec(25, 1))

App_score_holdings(promoter, fii, dii) ==
    LET total == promoter + fii + dii
    IN  IF total >= Dec(80, 1) THEN Dec(100, 1)
        ELSE IF total <= Dec(40, 1) THEN 0
        ELSE FMulDiv(Dec(100, 1), total - Dec(40, 1), Dec(80, 1) - Dec(40, 1))

\* Variant of the delta scorer that weighs the FII change 1.0 instead of 1.5.
App_score_holding_delta_flat_fii(p_delta, f_delta, d_delta) ==
    LET weighted == FMul(p_delta, Dec(2, 1)) + FMul(f_delta, Dec(1, 1))
                        + FMul(d_delta, Dec(1, 1))
    IN  IF weighted >= Dec(3, 1) THEN Dec(100, 1)
        ELSE IF weighted <= -Dec(3, 1) THEN 0
        ELSE FMulDiv(Dec(100, 1), weighted + Dec(3, 1), Dec(6, 1))

App_score_holding_delta(p_delta, f_delta, d_delta) ==
    LET weighted == FMul(p_delta, Dec(2, 1)) + FMul(f_delta, Dec(15, 10))
                        + FMul(d_delta, Dec(1, 1))
    IN  IF weighted >= Dec(3, 1) THEN Dec(100, 1)
        ELSE IF weighted <= -Dec(3, 1) THEN 0
        ELSE FMulDiv(Dec(100, 1), weighted + Dec(3, 1), Dec(6, 1))

\* Variant of the technicals scorer whose default is 0.
App_score_technicals_zero_default(signal) ==
    CASE signal = "near support" -> Dec(100, 1)
      [] signal = "nothing" -> Dec(50, 1)
      [] OTHER -> 0

\* mapping.get(signal, 50.0): an unknown signal scores 50.
App_score_technicals(signal) ==
    CASE signal = "near support" -> Dec(100, 1)
      [] signal = "nothing" -> Dec(50, 1)
      [] signal = "near resistance" -> 0
      [] OTHER -> Dec(50, 1)

----------------------------------------------------------------------------
(* Direct calls of the scoring functions *)

Copies == {"lib", "app"}

Factors ==
    {"pe", "peg", "rsi", "de", "profit_growth", "consistency", "holdings",
     "delta", "capex", "technicals"}

\* How far below 1 and above 5 the ratings handed to the rating scorers reach.
RatingSpan == 2

PeValues == {Dec(n, 1) : n \in {-20, -14, 0, 7, 10, 14, 15, 20, 25, 30, 40, 60}}

PegValues == {Dec(n, 10) : n \in {-10, 0, 5, 8, 10, 14, 20, 21, 50}}

RsiValues == {Dec(n, 10) : n \in {-100, 0, 280, 300, 500, 695, 700, 750, 1000, 1500}}

DeValues == {Dec(n, 10) : n \in {-5, 0, 1, 3, 12, 20, 30}}

GrowthValues == {Dec(n, 10) : n \in {-100, 0, 125, 180, 250, 300}}

RatingValues == {Dec(n, 1) : n \in (1 - RatingSpan)..(5 + RatingSpan)}

HoldingValues == {Dec(n, 1) : n \in {0, 5, 10, 20, 25, 40, 55, 80, 100, 150}}

DeltaValues == {Dec(n, 10) : n \in {-30, -10, -5, 0, 5, 10, 15, 30}}

SignalValues ==
    {"near support", "nothing", "near resistance", "breakout", "Near Support", ""}

\* The argument tuples a caller may hand to the scorer of factor f.
ProbeArgs(f) ==
    CASE f = "pe" -> PeValues \X PeValues
      [] f = "peg" -> {<<v>> : v \in PegValues}
      [] f = "rsi" -> {<<v>> : v \in RsiValues}
      [] f = "de" -> {<<v>> : v \in DeValues}
      [] f = "profit_growth" -> {<<v>> : v \in GrowthValues}
      [] f \in {"consistency", "capex"} -> {<<v>> : v \in RatingValues}
      [] f = "holdings" -> HoldingValues \X HoldingValues \X HoldingValues
      [] f = "delta" -> DeltaValues \X DeltaValues \X DeltaValues
      [] f = "technicals" -> {<<>>}

ProbeSignals(f) == IF f = "technicals" THEN SignalValues ELSE {"nothing"}

\* The scorer of factor f in copy c, called as calculate_metric calls it.
ScoreCall(c, f, a, signal) ==
    IF c = "lib" THEN
        CASE f = "pe" -> Return(Lib_score_pe_ratio(a[1], a[2]))
          [] f = "peg" -> Return(Lib_score_peg_ratio(a[1]))
          [] f = "rsi" -> Return(Lib_score_rsi(a[1]))
          [] f = "de" -> Return(Lib_score_debt_to_equity(a[1]))
          [] f = "profit_growth" -> Return(Lib_score_profit_growth(a[1]))
          [] f = "consistency" -> Lib_score_human_rating_1_to_5(a[1])
          [] f = "holdings" -> Return(Lib_score_holdings(a[1], a[2], a[3]))
          [] f = "delta" -> Return(Lib_score_holding_delta(a[1], a[2], a[3]))
          [] f = "capex" -> Lib_score_human_rating_1_to_5(a[1])
          [] f = "technicals" -> Lib_score_technicals(signal)
    ELSE
        CASE f = "pe" -> Return(App_score_pe_ratio(a[1], a[2]))
          [] f = "peg" -> Return(App_score_peg_ratio(a[1]))
          [] f = "rsi" -> Return(App_score_rsi(a[1]))
          [] f = "de" -> Return(App_score_debt_to_equity(a[1]))
          [] f = "profit_growth" -> Return(App_score_profit_growth(a[1]))
          [] f = "consistency" -> Return(App_score_human_rating(a[1]))
          [] f = "holdings" -> Return(App_score_holdings(a[1], a[2], a[3]))
          [] f = "delta" -> Return(App_score_holding_delta(a[1], a[2], a[3]))
          [] f = "capex" -> Return(App_score_human_rating(a[1]))
          [] f = "technicals" -> Return(App_score_technicals(signal))

Pending == [pending |-> TRUE]

NoProbe ==
    [copy |-> "none", fn |-> "none", args |-> <<>>, signal |-> "nothing",
     out |-> Pending]

\* The calls a caller may make: a copy, a scorer and its arguments.
ProbeCalls ==
    UNION { { [copy |-> c, fn |-> f, args |-> a, signal |-> s, out |-> Pending] :
                c \in Copies, a \in ProbeArgs(f), s \in ProbeSignals(f) } :
            f \in Factors }

\* The pending call is made.
Probe ==
    /\ probe.out = Pending
    /\ probe.fn \in Factors
    /\ probe' = [probe EXCEPT
                    !.out = ScoreCall(probe.copy, probe.fn, probe.args, probe.signal)]
    /\ UNCHANGED <<copy, weights, ctor, rec, ret, memo, ui>>

\* The scorers that interpolate between two anchors.
Interpolating == {"pe", "peg", "rsi", "de", "profit_growth", "holdings", "delta"}

\* The argument tuples of two calls of one scorer made one after the other.
PairArgs(f) ==
    CASE f = "pe" ->
            {<<Dec(a, 1), Dec(b, 1)>> : a, b \in {-20, -14, 7, 10, 14, 20, 25, 40}}
      [] f = "holdings" ->
            {<<Dec(a, 1), Dec(b, 1), Dec(c, 1)>> : a, b, c \in {0, 20, 40, 55}}
      [] f = "delta" ->
            {<<Dec(a, 10), Dec(b, 10), Dec(c, 10)>> : a, b, c \in {-10, 0, 5, 15}}
      [] OTHER -> ProbeArgs(f)

\* The first of two calls of a scorer of the library copy.
FirstCalls ==
    UNION { { [copy |-> "lib", fn |-> f, args |-> a, signal |-> "nothing",
               out |-> Pending] : a \in PairArgs(f) } :
            f \in Interpolating }

----------------------------------------------------------------------------
(* Weight configurations and construction *)

\* my_weights of the library's example run; also the form's default weights.
my_weights ==
    [f \in Factors |->
        CASE f = "holdings" -> Dec(5, 100)
          [] f = "technicals" -> Dec(15, 100)
          [] OTHER -> Dec(10, 100)]

\* The dict d with d[k] = v.
DictWith(d, k, v) == [x \in DOMAIN d \cup {k} |-> IF x = k THEN v ELSE d[x]]

\* The weight dicts a caller may hand to StockRanker(...).
WeightConfigs ==
    { my_weights,
      [f \in Factors |-> Dec(10, 100)],
      [f \in {"pe", "technicals"} |-> Dec(50, 100)],
      DictWith(DictWith(my_weights, "profit_growth", Dec(100, 100)), "pe", -Dec(80, 100)),
      DictWith(DictWith(my_weights, "technicals", Dec(10, 100)), "hype", Dec(5, 100)) }
    \cup { DictWith(my_weights, "technicals", Micro(n)) :
             n \in {120000, 180000, 149999, 150005, 150500, 152000} }

\* The sum of d[k] over the keys in ks.
RECURSIVE SumOver(_, _)
SumOver(d, ks) ==
    IF ks = {} THEN 0
    ELSE LET Rest(k) == d[k] + SumOver(d, ks \ {k})
         IN  Bind(CHOOSE x \in ks : TRUE, Rest)

\* sum(d.values())
SumValues(d) ==
    LET Total(v) == SumOver(v, DOMAIN v)
    IN  Bind(d, Total)

\* Variant of the library's validation with the form's tolerance, rel_tol=1e-5.
Lib_validate_weights_loose(w) ==
    LET Check(total_weight) ==
            IF ~IsClose(total_weight, Dec(1, 1), 10^5) THEN Raise("ValueError")
            ELSE Return(w)
    IN  Bind(SumValues(w), Check)

\* math.isclose(total_weight, 1.0): rel_tol defaults to 1e-09.
Lib_validate_weights(w) ==
    LET Check(total_weight) ==
            IF ~IsClose(total_weight, Dec(1, 1), 10^9) THEN Raise("ValueError")
            ELSE Return(w)
    IN  Bind(SumValues(w), Check)

\* Variant of the form's validation that never stops the script.
App_validate_weights_advisory(w) == Return(w)

\* math.isclose(total_weight, 1.0, rel_tol=1e-5); st.error and st.stop() otherwise.
App_validate_weights(w) ==
    LET Check(total_weight) ==
            IF ~IsClose(total_weight, Dec(1, 1), 10^5) THEN Raise("StopException")
            ELSE Return(w)
    IN  Bind(SumValues(w), Check)

\* StockRanker(w): the outcome of __init__, which stores w and validates it.
NewStockRanker(c, w) ==
    IF c = "lib" THEN Lib_validate_weights(w) ELSE App_validate_weights(w)

NoRanker == [none |-> TRUE]

NoCall == [kind |-> "no call"]

NoMemo == [none |-> TRUE]

\* ranker = StockRanker(w)
Construct(w) ==
    \E o \in {NewStockRanker(copy, w)} :
        /\ ctor' = [given |-> w, out |-> IF Raised(o) THEN o ELSE Return("ranker")]
        /\ weights' = IF Raised(o) THEN NoRanker ELSE o.val
        /\ ret' = NoCall
        /\ memo' = NoMemo
        /\ UNCHANGED <<copy, rec, probe, ui>>

----------------------------------------------------------------------------
(* Records *)

Fields ==
    {"stock_pe", "industry_pe", "peg_ratio", "rsi", "de_ratio",
     "profit_growth_3y_cagr", "consistency_rating", "promoter_holding",
     "fii_holding", "dii_holding", "promoter_delta", "fii_delta", "dii_delta",
     "capex_rating", "technical_signal"}

\* Example Stock 1: "GoodValueBuy"
stock_A_data ==
    [stock_pe |-> Dec(15, 1), industry_pe |-> Dec(25, 1), peg_ratio |-> Dec(8, 10),
     rsi |-> Dec(28, 1), de_ratio |-> Dec(3, 10),
     profit_growth_3y_cagr |-> Dec(18, 1), consistency_rating |-> Dec(4, 1),
     promoter_holding |-> Dec(55, 1), fii_holding |-> Dec(10, 1),
     dii_holding |-> Dec(5, 1), promoter_delta |-> Dec(5, 10),
     fii_delta |-> Dec(1, 1), dii_delta |-> 0, capex_rating |-> Dec(4, 1),
     technical_signal |-> "near support"]

\* Example Stock 2: "HypedGrowthStock"
stock_B_data ==
    [stock_pe |-> Dec(60, 1), industry_pe |-> Dec(30, 1), peg_ratio |-> Dec(21, 10),
     rsi |-> Dec(75, 1), de_ratio |-> Dec(12, 10),
     profit_growth_3y_cagr |-> Dec(30, 1), consistency_rating |-> Dec(3, 1),
     promoter_holding |-> Dec(25, 1), fii_holding |-> Dec(20, 1),
     dii_holding |-> Dec(10, 1), promoter_delta |-> -Dec(1, 1),
     fii_delta |-> 0, dii_delta |-> -Dec(5, 10), capex_rating |-> Dec(5, 1),
     technical_signal |-> "near resistance"]

\* The record the form builds from its widgets' default values.
form_defaults ==
    [stock_pe |-> Dec(15, 1), industry_pe |-> Dec(25, 1), peg_ratio |-> Dec(1, 1),
     rsi |-> Dec(50, 1), de_ratio |-> Dec(5, 10),
     profit_growth_3y_cagr |-> Dec(15, 1), consistency_rating |-> Dec(4, 1),
     promoter_holding |-> Dec(50, 1), fii_holding |-> Dec(10, 1),
     dii_holding |-> Dec(10, 1), promoter_delta |-> 0, fii_delta |-> 0,
     dii_delta |-> 0, capex_rating |-> Dec(3, 1), technical_signal |-> "nothing"]

\* A record at every ideal threshold, and one at or beyond every poor threshold
\* with holdings above 100 percent in the first and a negative PE in the second.
all_ideal ==
    [stock_pe |-> Dec(14, 1), industry_pe |-> Dec(20, 1), peg_ratio |-> Dec(8, 10),
     rsi |-> Dec(30, 1), de_ratio |-> Dec(1, 10),
     profit_growth_3y_cagr |-> Dec(25, 1), consistency_rating |-> Dec(5, 1),
     promoter_holding |-> Dec(80, 1), fii_holding |-> Dec(20, 1),
     dii_holding |-> Dec(10, 1), promoter_delta |-> Dec(15, 10), fii_delta |-> 0,
     dii_delta |-> 0, capex_rating |-> Dec(5, 1), technical_signal |-> "near support"]

all_poor ==
    [stock_pe |-> -Dec(14, 1), industry_pe |-> Dec(20, 1), peg_ratio |-> Dec(2, 1),
     rsi |-> Dec(70, 1), de_ratio |-> Dec(2, 1),
     profit_growth_3y_cagr |-> -Dec(10, 1), consistency_rating |-> Dec(1, 1),
     promoter_holding |-> Dec(40, 1), fii_holding |-> 0, dii_holding |-> 0,
     promoter_delta |-> -Dec(1, 1), fii_delta |-> 0, dii_delta |-> -Dec(1, 1),
     capex_rating |-> Dec(1, 1), technical_signal |-> "near resistance"]

BaseRecords == {stock_A_data, stock_B_data, form_defaults, all_ideal, all_poor}

\* del d[k]
DictWithout(d, k) == [x \in DOMAIN d \ {k} |-> d[x]]

\* The records a caller may hand to calculate_metric: the base records, and the
\* first example record with one field missing, one rating replaced or the
\* signal replaced.
Records ==
    BaseRecords
    \cup { DictWithout(stock_A_data, k) : k \in Fields }
    \cup { DictWith(stock_A_data, k, v) :
             k \in {"consistency_rating", "capex_rating"}, v \in RatingValues }
    \cup { DictWith(stock_A_data, "technical_signal", s) : s \in SignalValues }

\* The records whose outcome a caller keeps, to compare when it evaluates them again.
Rechecked ==
    BaseRecords
    \cup { DictWithout(stock_A_data, "rsi"),
           DictWith(stock_A_data, "capex_rating", Dec(6, 1)),
           DictWith(stock_A_data, "technical_signal", "breakout") }

\* A record with every field, both ratings in 1..5 and an allowed signal.
InDomain(d) ==
    /\ DOMAIN d = Fields
    /\ Dec(1, 1) <= d.consistency_rating /\ d.consistency_rating <= Dec(5, 1)
    /\ Dec(1, 1) <= d.capex_rating /\ d.capex_rating <= Dec(5, 1)
    /\ d.technical_signal \in {"near support", "nothing", "near resistance"}

----------------------------------------------------------------------------
(* calculate_metric *)

\* The order in which calculate_metric fills scores[...].
ScoreOrder ==
    <<"pe", "peg", "rsi", "de", "profit_growth", "consistency", "holdings",
      "delta", "capex", "technicals">>

\* The fields of data the statement for factor f reads, in order.
FieldsRead(f) ==
    CASE f = "pe" -> <<"stock_pe", "industry_pe">>
      [] f = "peg" -> <<"peg_ratio">>
      [] f = "rsi" -> <<"rsi">>
      [] f = "de" -> <<"de_ratio">>
      [] f = "profit_growth" -> <<"profit_growth_3y_cagr">>
      [] f = "consistency" -> <<"consistency_rating">>
      [] f = "holdings" -> <<"promoter_holding", "fii_holding", "dii_holding">>
      [] f = "delta" -> <<"promoter_delta", "fii_delta", "dii_delta">>
      [] f = "capex" -> <<"capex_rating">>
      [] f = "technicals" -> <<"technical_signal">>

\* scores[f] = self._score_...(data[...], ...): data[k] raises KeyError for a
\* missing k before the scorer is called.
ScoreStatement(c, f, data) ==
    LET ks == FieldsRead(f)
    IN  IF \E i \in 1..Len(ks) : ks[i] \notin DOMAIN data THEN Raise("KeyError")
        ELSE IF f = "technicals" THEN ScoreCall(c, f, <<>>, data[ks[1]])
        ELSE ScoreCall(c, f, [i \in 1..Len(ks) |-> data[ks[i]]], "nothing")

\* The first exception the ten statements raise, or Return(scores).
ScoreAll(c, data) ==
    LET FirstRaised(stm) ==
            LET bad == {i \in 1..Len(ScoreOrder) : Raised(stm[ScoreOrder[i]])}
            IN  IF bad # {}
                THEN stm[ScoreOrder[CHOOSE i \in bad : \A j \in bad : i <= j]]
                ELSE Return([f \in Factors |-> stm[f].val])
    IN  Bind([f \in Factors |-> ScoreStatement(c, f, data)], FirstRaised)

\* The sum of scores[key] * w[key] over the keys in ks.
RECURSIVE WeightedSumOver(_, _, _)
WeightedSumOver(scores, w, ks) ==
    IF ks = {} THEN 0
    ELSE LET Rest(key) ==
                 FMul(scores[key], w[key]) + WeightedSumOver(scores, w, ks \ {key})
         IN  Bind(CHOOSE x \in ks : TRUE, Rest)

\* Variant of the loop that adds scores[key] without its weight.
WeightedSum_unweighted(scores, w) ==
    WeightedSumOver(scores, [k \in DOMAIN w |-> Dec(1, 1)], DOMAIN w)

\* total_score over the keys of self.weights; every key is a key of scores.
WeightedSum(scores, w) == WeightedSumOver(scores, w, DOMAIN w)

\* Variant of the scaling without the min_alloc offset.
FinalMetric_no_offset(total_score) ==
    LET min_alloc == Dec(5, 1)
        max_alloc == Dec(10, 1)
    IN  FMul(FDiv(total_score, Dec(100, 1)), max_alloc - min_alloc)

\* min_alloc + (total_score / 100.0) * (max_alloc - min_alloc)
FinalMetric(total_score) ==
    LET min_alloc == Dec(5, 1)
        max_alloc == Dec(10, 1)
    IN  min_alloc + FMul(FDiv(total_score, Dec(100, 1)), max_alloc - min_alloc)

NoneValue == [none |-> TRUE]

Lib_calculate_metric(w, data) ==
    LET Report(scores, total_score) ==
            [final_allocation_metric |-> Round2(FinalMetric(total_score)),
             total_weighted_score |-> Round2(total_score),
             individual_scores |-> [k \in DOMAIN scores |-> Round2(scores[k])]]
        Weigh(scores) ==
            LET Finish(total_score) == Return(Report(scores, total_score))
            IN  IF \E key \in DOMAIN w : key \notin DOMAIN scores
                THEN Raise("KeyError")
                ELSE Bind(WeightedSum(scores, w), Finish)
        After(tried) ==
            IF Raised(tried) /\ tried.exc = "KeyError"
            THEN [val |-> NoneValue, printed |-> "Error: Missing data key"]
            ELSE IF Raised(tried) /\ tried.exc = "ValueError"
            THEN [val |-> NoneValue, printed |-> "Error: Invalid data value"]
            ELSE Weigh(tried.val)
    IN  Bind(ScoreAll("lib", data), After)

App_calculate_metric(w, data) ==
    LET Report(scores, total_score) ==
            [final_allocation |-> Round2(FinalMetric(total_score)),
             raw_score |-> Round2(total_score),
             breakdown |-> scores]
        Weigh(scores) ==
            LET Finish(total_score) == Return(Report(scores, total_score))
            IN  IF \E k \in DOMAIN w : k \notin DOMAIN scores
                THEN Raise("KeyError")
                ELSE Bind(WeightedSum(scores, w), Finish)
        After(tried) == IF Raised(tried) THEN tried ELSE Weigh(tried.val)
    IN  Bind(ScoreAll("app", data), After)

\* The caller readies another record.
Supply(d) ==
    /\ rec' = d
    /\ ret' = NoCall
    /\ UNCHANGED <<copy, weights, ctor, memo, probe, ui>>

\* Variant of calculate_metric that consumes a weight as it adds it up
\* (self.weights.pop instead of a read).
CalculateMetric_consuming ==
    /\ weights # NoRanker
    /\ \E o \in {IF copy = "lib" THEN Lib_calculate_metric(weights, rec)
                   ELSE App_calculate_metric(weights, rec)} :
          /\ ret' = [kind |-> "called", out |-> o]
          /\ memo' \in {memo} \cup IF rec \in Rechecked THEN {[rec |-> rec, out |-> o]}
                                  ELSE {}
    /\ weights' = IF "technicals" \in DOMAIN weights
                  THEN DictWithout(weights, "technicals") ELSE weights
    /\ UNCHANGED <<copy, ctor, rec, probe, ui>>

\* ranker.calculate_metric(rec); the caller may keep the record and its outcome.
CalculateMetric ==
    /\ weights # NoRanker
    /\ \E o \in {IF copy = "lib" THEN Lib_calculate_metric(weights, rec)
                   ELSE App_calculate_metric(weights, rec)} :
          /\ ret' = [kind |-> "called", out |-> o]
          /\ memo' \in {memo} \cup IF rec \in Rechecked THEN {[rec |-> rec, out |-> o]}
                                  ELSE {}
    /\ UNCHANGED <<copy, weights, ctor, rec, probe, ui>>

\* Accessors of a result record, whichever copy built it.
IsResult(v) == "final_allocation_metric" \in DOMAIN v \/ "final_allocation" \in DOMAIN v

FinalOf(v) ==
    IF "final_allocation_metric" \in DOMAIN v THEN v.final_allocation_metric
    ELSE v.final_allocation

RawOf(v) ==
    IF "total_weighted_score" \in DOMAIN v THEN v.total_weighted_score ELSE v.raw_score

ScoresOf(v) ==
    IF "individual_scores" \in DOMAIN v THEN v.individual_scores ELSE v.breakdown

\* The last call returned a result record.
GotResult == ret.kind = "called" /\ Returned(ret.out) /\ IsResult(ret.out.val)

----------------------------------------------------------------------------
(* The form script of streamlit_app_pa.py: each action is one run of the script *)

\* The weight dicts the sidebar can hold: one number per factor.
SidebarWeights == {w \in WeightConfigs : DOMAIN w = Factors}

\* The records the widgets can build: sliders give ratings in 1..5, the
\* selectbox one of the three signals.
FormRecords == {d \in Records : InDomain(d)}

\* The sidebar part of a run: the warning is shown when the sum is not close to
\* 1.0 at rel_tol=1e-3.
SidebarWarning(w) == ~IsClose(SumValues(w), Dec(1, 1), 10^3)

IdlePage == [status |-> "idle"]

\* The qualitative band the page writes for a final allocation.
Band(final_allocation) ==
    IF final_allocation >= Dec(9, 1) THEN "Aggressive Buy"
    ELSE IF final_allocation >= Dec(75, 10) THEN "Solid Buy"
    ELSE "Cautious/Minimum Buy"

\* The body of `if st.button("Calculate Allocation")`: what the page shows.
\* st.stop() ends the run (its exception is no Exception, so the handler's
\* except clause does not see it); any other exception is shown by st.error.
CalculatePage(w, data) ==
    LET Show(o) ==
            IF Raised(o) THEN [status |-> "error", error |-> "Error calculating metric"]
            ELSE [status |-> "success", result |-> o.val,
                  band |-> Band(o.val.final_allocation)]
        Run(made) ==
            IF Raised(made)
            THEN [status |-> "stopped", error |-> "Configuration Error"]
            ELSE Bind(App_calculate_metric(made.val, data), Show)
    IN  Bind(NewStockRanker("app", w), Run)

\* The user changes a sidebar weight: the script reruns, the button not pressed.
EditWeights(w) ==
    /\ ui' = [weights |-> w, warning |-> SidebarWarning(w), form |-> ui.form,
              page |-> IdlePage]
    /\ UNCHANGED <<copy, weights, ctor, rec, ret, memo, probe>>

\* The user changes a widget of the main page: the script reruns likewise.
EditForm(d) ==
    /\ ui' = [weights |-> ui.weights, warning |-> SidebarWarning(ui.weights),
              form |-> d, page |-> IdlePage]
    /\ UNCHANGED <<copy, weights, ctor, rec, ret, memo, probe>>

\* The user presses "Calculate Allocation".
PressCalculate ==
    /\ ui' = [weights |-> ui.weights, warning |-> SidebarWarning(ui.weights),
              form |-> ui.form, page |-> CalculatePage(ui.weights, ui.form)]
    /\ UNCHANGED <<copy, weights, ctor, rec, ret, memo, probe>>

----------------------------------------------------------------------------
(* Specifications *)

NoUi == [none |-> TRUE]

\* A caller of one copy of the class: constructs rankers, evaluates records.
Init ==
    /\ copy \in Copies
    /\ weights = NoRanker
    /\ ctor = [given |-> my_weights, out |-> Raise("not called")]
    /\ rec = stock_A_data
    /\ ret = NoCall
    /\ memo = NoMemo
    /\ probe = NoProbe
    /\ ui = NoUi

Next ==
    \/ \E w \in WeightConfigs : Construct(w)
    \/ \E d \in Records : Supply(d)
    \/ CalculateMetric

Spec == Init /\ [][Next]_vars

\* A caller of the scoring functions alone.
InitScore ==
    /\ copy = "lib"
    /\ weights = NoRanker
    /\ ctor = [given |-> my_weights, out |-> Raise("not called")]
    /\ rec = stock_A_data
    /\ ret = NoCall
    /\ memo = NoMemo
    /\ probe \in ProbeCalls
    /\ ui = NoUi

NextScore == Probe

SpecScore == InitScore /\ [][NextScore]_vars

\* The caller keeps the call just made and readies a second call of the same
\* scorer with the arguments a.
ProbeAgain(a) ==
    /\ probe.fn \in Interpolating
    /\ probe.out # Pending
    /\ memo = NoMemo
    /\ a \in PairArgs(probe.fn)
    /\ memo' = [call |-> probe]
    /\ probe' = [probe EXCEPT !.args = a, !.out = Pending]
    /\ UNCHANGED <<copy, weights, ctor, rec, ret, ui>>

\* A caller who calls one scoring function twice.
InitPair ==
    /\ copy = "lib"
    /\ weights = NoRanker
    /\ ctor = [given |-> my_weights, out |-> Raise("not called")]
    /\ rec = stock_A_data
    /\ ret = NoCall
    /\ memo = NoMemo
    /\ probe \in FirstCalls
    /\ ui = NoUi

NextPair ==
    \/ Probe
    \/ \E a \in PairArgs(probe.fn) : ProbeAgain(a)

SpecPair == InitPair /\ [][NextPair]_vars

\* The caller constructs the library copy's ranker with the given weights.
ConstructGiven ==
    /\ copy = "lib"
    /\ ctor.out = Raise("not called")
    /\ Construct(ctor.given)

\* The caller keeps how the library copy's construction and evaluation ended
\* and constructs the form's copy with the same weights.
HandOver ==
    /\ copy = "lib"
    /\ ctor.out # Raise("not called")
    /\ copy' = "app"
    /\ memo' = [lib |-> [ctor |-> ctor.out, ret |-> ret]]
    /\ \E o \in {NewStockRanker("app", ctor.given)} :
          /\ ctor' = [given |-> ctor.given,
                      out |-> IF Raised(o) THEN o ELSE Return("ranker")]
          /\ weights' = IF Raised(o) THEN NoRanker ELSE o.val
    /\ ret' = NoCall
    /\ UNCHANGED <<rec, probe, ui>>

\* A caller who gives the same weights and the same record to both copies,
\* the library copy first.
InitBoth ==
    /\ copy = "lib"
    /\ weights = NoRanker
    /\ ctor \in {[given |-> w, out |-> Raise("not called")] : w \in WeightConfigs}
    /\ rec \in Records
    /\ ret = NoCall
    /\ memo = NoMemo
    /\ probe = NoProbe
    /\ ui = NoUi

NextBoth ==
    \/ ConstructGiven
    \/ CalculateMetric
    \/ HandOver

SpecBoth == InitBoth /\ [][NextBoth]_vars

\* A user of the form.
InitUI ==
    /\ copy = "app"
    /\ weights = NoRanker
    /\ ctor = [given |-> my_weights, out |-> Raise("not called")]
    /\ rec = stock_A_data
    /\ ret = NoCall
    /\ memo = NoMemo
    /\ probe = NoProbe
    /\ ui = [weights |-> my_weights, warning |-> SidebarWarning(my_weights),
             form |-> form_defaults, page |-> IdlePage]

NextUI ==
    \/ \E w \in SidebarWeights : EditWeights(w)
    \/ \E d \in FormRecords : EditForm(d)
    \/ PressCalculate

SpecUI == InitUI /\ [][NextUI]_vars

----------------------------------------------------------------------------
(* Properties *)

Hundred == Dec(100, 1)

ProbeDone == probe.fn \in Factors /\ probe.out # Pending

Constructed == ctor.out # Raise("not called")

Called == ret.kind = "called"

\* C1: every result of calculate_metric on a validated ranker reports a final
\* allocation in [5,10] and a raw weighted score in [0,100].
C1_ResultInRange ==
    GotResult =>
        /\ Dec(5, 1) <= FinalOf(ret.out.val) /\ FinalOf(ret.out.val) <= Dec(10, 1)
        /\ 0 <= RawOf(ret.out.val) /\ RawOf(ret.out.val) <= Hundred

\* C2: each of the ten scoring functions, in both copies, returns a score in
\* [0,100] for every input it accepts (every input for which it returns).
C2_RangeClosure ==
    (ProbeDone /\ Returned(probe.out)) =>
        (0 <= probe.out.val /\ probe.out.val <= Hundred)

\* C3 as stated: in both copies construction fails for weight sums 0.97 and
\* 1.03 and succeeds for sums 1.0 and 0.999999.
C3_SameToleranceInBothCopies ==
    Constructed =>
        LET total == SumValues(ctor.given)
        IN  /\ total \in {Micro(970000), Micro(1030000)} => Raised(ctor.out)
            /\ total \in {Dec(1, 1), Micro(999999)} => Returned(ctor.out)

\* C3 amended: in both copies construction fails for sums 0.97 and 1.03 and
\* succeeds for the sum 1.0; for the sum 0.999999 it succeeds in the form's
\* copy (rel_tol 1e-5) and fails with ValueError in the library copy (rel_tol
\* 1e-9); a failed construction leaves no ranker.
C3_ToleranceByCopy ==
    Constructed =>
        LET total == SumValues(ctor.given)
        IN  /\ total \in {Micro(970000), Micro(1030000)} =>
                  /\ ctor.out = Raise(IF copy = "lib" THEN "ValueError" ELSE "StopException")
                  /\ weights = NoRanker
            /\ total = Dec(1, 1) => (Returned(ctor.out) /\ weights = ctor.given)
            /\ (total = Micro(999999) /\ copy = "app") =>
                  (Returned(ctor.out) /\ weights = ctor.given)
            /\ (total = Micro(999999) /\ copy = "lib") =>
                  (ctor.out = Raise("ValueError") /\ weights = NoRanker)

C3_Witness ==
    /\ copy = "lib"
    /\ Constructed
    /\ SumValues(ctor.given) = Micro(999999)
    /\ ctor.out = Raise("ValueError")

AtIdeal(p) ==
    CASE p.fn = "pe" -> p.args[2] # 0 /\ FDiv(p.args[1], p.args[2]) = Dec(7, 10)
      [] p.fn = "peg" -> p.args[1] = Dec(8, 10)
      [] p.fn = "rsi" -> p.args[1] = Dec(30, 1)
      [] p.fn = "de" -> p.args[1] = Dec(1, 10)
      [] p.fn = "profit_growth" -> p.args[1] = Dec(25, 1)
      [] p.fn = "holdings" -> p.args[1] + p.args[2] + p.args[3] = Dec(80, 1)
      [] p.fn = "delta" -> 2 * p.args[1] + (3 * p.args[2]) \div 2 + p.args[3] = Dec(3, 1)
      [] OTHER -> FALSE

AtPoor(p) ==
    CASE p.fn = "pe" -> p.args[2] # 0 /\ FDiv(p.args[1], p.args[2]) = Dec(2, 1)
      [] p.fn = "peg" -> p.args[1] = Dec(2, 1)
      [] p.fn = "rsi" -> p.args[1] = Dec(70, 1)
      [] p.fn = "de" -> p.args[1] = Dec(2, 1)
      [] p.fn = "profit_growth" -> p.args[1] = 0
      [] p.fn = "holdings" -> p.args[1] + p.args[2] + p.args[3] = Dec(40, 1)
      [] p.fn = "delta" -> 2 * p.args[1] + (3 * p.args[2]) \div 2 + p.args[3] = -Dec(3, 1)
      [] OTHER -> FALSE

PositivePe(p) == p.fn = "pe" => (p.args[1] > 0 /\ p.args[2] > 0)

\* C5 as stated: an input whose figure of merit is exactly the ideal threshold
\* scores exactly 100, one exactly at the poor threshold scores exactly 0.
C5_BoundaryExact ==
    ProbeDone =>
        /\ AtIdeal(probe) => probe.out = Return(Hundred)
        /\ AtPoor(probe) => probe.out = Return(0)

\* C5 amended: the same, for pe only when stock_pe and industry_pe are both
\* positive (a non-positive PE scores 0 whatever the ratio).
C5_BoundaryExactPositivePe ==
    ProbeDone =>
        /\ (AtIdeal(probe) /\ PositivePe(probe)) => probe.out = Return(Hundred)
        /\ AtPoor(probe) => probe.out = Return(0)
        /\ (probe.fn = "pe" /\ ~PositivePe(probe)) => probe.out = Return(0)

C5_Witness ==
    /\ ProbeDone
    /\ probe.copy = "lib"
    /\ probe.fn = "holdings"
    /\ probe.args[3] > 0
    /\ AtIdeal(probe)
    /\ probe.out = Return(Hundred)

\* C6: the rating scorer used for consistency and capex returns (rating-1)*25,
\* that is 0, 25, 50, 75, 100, for the ratings 1..5 and fails with an error
\* for every rating outside [1,5].
C6_RatingScorerRejectsOutOfRange ==
    (ProbeDone /\ probe.fn \in {"consistency", "capex"}) =>
        IF Dec(1, 1) <= probe.args[1] /\ probe.args[1] <= Dec(5, 1)
        THEN /\ probe.out = Return(25 * (probe.args[1] - Dec(1, 1)))
             /\ probe.out.val \in {0, Dec(25, 1), Dec(50, 1), Dec(75, 1), Hundred}
        ELSE Raised(probe.out)

\* C7: the technicals scorer maps "near support" to 100, "nothing" to 50 and
\* "near resistance" to 0; for any other signal the library copy fails with an
\* error and the form's copy returns 50, so no unknown signal yields a score
\* other than 50.
C7_Technicals ==
    (ProbeDone /\ probe.fn = "technicals") =>
        CASE probe.signal = "near support" -> probe.out = Return(Hundred)
          [] probe.signal = "nothing" -> probe.out = Return(Dec(50, 1))
          [] probe.signal = "near resistance" -> probe.out = Return(0)
          [] OTHER -> IF probe.copy = "lib" THEN probe.out = Raise("ValueError")
                      ELSE probe.out = Return(Dec(50, 1))

C7_Witness ==
    /\ ProbeDone
    /\ probe.copy = "app"
    /\ probe.fn = "technicals"
    /\ probe.signal = "breakout"
    /\ probe.out = Return(Dec(50, 1))

\* C8 as stated: pressing Calculate always runs the evaluation and shows a
\* result, whatever the weights sum to.
C8_CalculateNeverBlocked ==
    ui.page.status # "idle" => ui.page.status = "success"

\* C8 amended: the sidebar warning (shown when the sum is off by more than
\* rel_tol 1e-3) blocks nothing, but pressing Calculate constructs the ranker
\* under the class's own validation: when the weights do not sum to 1.0 within
\* rel_tol 1e-5 the page shows a configuration error and the run stops with no
\* result, also when no warning was shown; otherwise the evaluation runs and
\* the page shows its result.
C8_CalculateBlockedByStrictValidation ==
    LET total == SumValues(ui.weights)
    IN  /\ ui.warning = ~IsClose(total, Dec(1, 1), 10^3)
        /\ ui.page.status # "idle" =>
              IF IsClose(total, Dec(1, 1), 10^5)
              THEN /\ ui.page.status = "success"
                   /\ ui.page.result = App_calculate_metric(ui.weights, ui.form).val
              ELSE ui.page = [status |-> "stopped", error |-> "Configuration Error"]

C8_Witness ==
    /\ ui.page.status = "stopped"
    /\ ~ui.warning
    /\ SumValues(ui.weights) = Micro(1000500)

\* A call on the record the caller kept returns the outcome it kept.
C9_SameOutcome ==
    (Called /\ memo # NoMemo /\ memo.rec = rec) => ret.out = memo.out

\* A calculate_metric step (the only step that ends with a call made) leaves
\* the weights and the caller's record as they were.
C9_Frame == ret'.kind = "called" => (weights' = weights /\ rec' = rec)

C10_Scenarios ==
    (Called /\ weights = my_weights) =>
        /\ rec = stock_A_data =>
              /\ GotResult
              /\ FinalOf(ret.out.val) > Dec(85, 10)
              /\ ScoresOf(ret.out.val)["technicals"] = Hundred
        /\ rec = stock_B_data =>
              /\ GotResult
              /\ ScoresOf(ret.out.val)["pe"] = 0
              /\ (memo # NoMemo /\ memo.rec = stock_A_data) =>
                    FinalOf(ret.out.val) < FinalOf(memo.out.val)

C10_Witness ==
    /\ Called
    /\ weights = my_weights
    /\ rec = stock_B_data
    /\ memo # NoMemo
    /\ memo.rec = stock_A_data
    /\ FinalOf(memo.out.val) = Dec(945, 100)
    /\ FinalOf(ret.out.val) = Dec(66, 10)

\* The figure of merit the scorer of a call is applied to.
Figure(p) ==
    CASE p.fn = "pe" -> FDiv(p.args[1], p.args[2])
      [] p.fn = "holdings" -> p.args[1] + p.args[2] + p.args[3]
      [] p.fn = "delta" -> 2 * p.args[1] + (3 * p.args[2]) \div 2 + p.args[3]
      [] OTHER -> p.args[1]

\* The two anchors of a scorer, lower figure first.
Anchors(f) ==
    CASE f = "pe" -> <<Dec(7, 10), Dec(2, 1)>>
      [] f = "peg" -> <<Dec(8, 10), Dec(2, 1)>>
      [] f = "rsi" -> <<Dec(30, 1), Dec(70, 1)>>
      [] f = "de" -> <<Dec(1, 10), Dec(2, 1)>>
      [] f = "profit_growth" -> <<0, Dec(25, 1)>>
      [] f = "holdings" -> <<Dec(40, 1), Dec(80, 1)>>
      [] f = "delta" -> <<-Dec(3, 1), Dec(3, 1)>>

BetweenAnchors(p) ==
    /\ p.fn = "pe" => p.args[2] # 0
    /\ Anchors(p.fn)[1] <= Figure(p)
    /\ Figure(p) <= Anchors(p.fn)[2]

\* Two calls of one interpolating scorer have been made, both between the
\* anchors, the earlier one on the smaller (or an equal) figure.
PairInZone ==
    /\ memo # NoMemo
    /\ "call" \in DOMAIN memo
    /\ probe.out # Pending
    /\ BetweenAnchors(memo.call)
    /\ BetweenAnchors(probe)
    /\ Figure(memo.call) <= Figure(probe)

InStatedDirection ==
    IF probe.fn \in {"pe", "peg", "rsi", "de"}
    THEN memo.call.out.val >= probe.out.val
    ELSE memo.call.out.val <= probe.out.val

\* C11 as stated: between its anchors each interpolating scorer is monotonic
\* in its stated direction: for pe ratio, peg, rsi and de a larger figure
\* never scores higher, for profit_growth, holdings sum and weighted delta a
\* larger figure never scores lower.
C11_MonotonicBetweenAnchors == PairInZone => InStatedDirection

\* C11 amended: the same, for pe over inputs with stock_pe and industry_pe
\* both positive (a non-positive PE scores 0 whatever the ratio, so a ratio
\* formed from two negative PEs can score below a larger ratio).
C11_MonotonicPositivePe ==
    (PairInZone /\ PositivePe(memo.call) /\ PositivePe(probe)) => InStatedDirection

C11_Witness ==
    /\ PairInZone
    /\ probe.fn = "delta"
    /\ Figure(memo.call) < Figure(probe)
    /\ 0 < memo.call.out.val
    /\ memo.call.out.val < probe.out.val
    /\ probe.out.val < Hundred

\* The score of factor f for the caller's record, as its scorer returns it.
ScoreFor(f) == ScoreStatement(copy, f, rec).val

\* The sum of weights[f] * score[f] over the first n factors of ScoreOrder
\* that the weight configuration names.
RECURSIVE RawUpTo(_)
RawUpTo(n) ==
    IF n = 0 THEN 0
    ELSE RawUpTo(n - 1)
           + (IF ScoreOrder[n] \in DOMAIN weights
              THEN FMul(weights[ScoreOrder[n]], ScoreFor(ScoreOrder[n]))
              ELSE 0)

ExpectedRaw == RawUpTo(Len(ScoreOrder))

\* C12: for every successful evaluation all ten per-factor scores are
\* computed, the raw score is the sum of weight[f] * score[f] over exactly the
\* factors the weight configuration names, and the final allocation is
\* 5 + (raw_score / 100) * 5 of the unrounded raw score; both are reported
\* rounded to two decimals.
C12_WeightedSumAndScaling ==
    GotResult =>
        /\ DOMAIN ScoresOf(ret.out.val) = Factors
        /\ DOMAIN weights \subseteq Factors
        /\ RawOf(ret.out.val) = Round2(ExpectedRaw)
        /\ FinalOf(ret.out.val)
              = Round2(Dec(5, 1) + 5 * FDiv(ExpectedRaw, Hundred))

C12_Witness ==
    /\ GotResult
    /\ DOMAIN weights = {"pe", "technicals"}
    /\ rec = stock_B_data
    /\ ScoresOf(ret.out.val)["profit_growth"] = Hundred
    /\ RawOf(ret.out.val) = 0
    /\ FinalOf(ret.out.val) = Dec(5, 1)

\* Both copies accepted the weights and evaluated the caller's in-domain record.
BothEvaluated ==
    /\ copy = "app"
    /\ memo # NoMemo
    /\ "lib" \in DOMAIN memo
    /\ Returned(memo.lib.ctor)
    /\ Returned(ctor.out)
    /\ InDomain(rec)
    /\ memo.lib.ret.kind = "called"
    /\ ret.kind = "called"

\* Both copies returned a result record, with the same final allocation and
\* raw score and with per-factor scores that agree to two decimals.
SameResults ==
    /\ Returned(memo.lib.ret.out) /\ IsResult(memo.lib.ret.out.val)
    /\ GotResult
    /\ FinalOf(ret.out.val) = FinalOf(memo.lib.ret.out.val)
    /\ RawOf(ret.out.val) = RawOf(memo.lib.ret.out.val)
    /\ DOMAIN ScoresOf(ret.out.val) = DOMAIN ScoresOf(memo.lib.ret.out.val)
    /\ \A f \in DOMAIN ScoresOf(ret.out.val) :
          Round2(ScoresOf(ret.out.val)[f]) = Round2(ScoresOf(memo.lib.ret.out.val)[f])

\* C13 as stated: for every weight configuration both constructors accept and
\* every in-domain record, both copies return the same final allocation and
\* raw score and per-factor scores that agree after rounding to two decimals.
C13_CopiesEquivalent == BothEvaluated => SameResults

\* C13 amended: the same for every weight configuration that both
\* constructors accept and that names only the ten factors; for an accepted
\* configuration that names anything else calculate_metric raises KeyError in
\* both copies and returns nothing.
C13_CopiesEquivalentOnFactorWeights ==
    BothEvaluated =>
        IF DOMAIN ctor.given \subseteq Factors THEN SameResults
        ELSE /\ memo.lib.ret.out = Raise("KeyError")
             /\ ret.out = Raise("KeyError")

C13_Witness ==
    /\ BothEvaluated
    /\ SameResults
    /\ rec = stock_A_data
    /\ ctor.given = my_weights
    /\ FinalOf(ret.out.val) = Dec(945, 100)
    /\ ScoresOf(memo.lib.ret.out.val)["de"] = Micro(89470000)
    /\ ScoresOf(ret.out.val)["de"] # Micro(89470000)

====
